---- MODULE Spec2Model ----
(***************************************************************************)
(* Model of src/main.py (INL "Flex Power"): the per-asset ramping envelope  *)
(* get_asset_flexibility, the disturbance curve get_power_disturbance_curve,*)
(* the aggregation flexibility_aggreagation, the first-crossing search      *)
(* get_max_min_disturbance, and the order in which the script calls them.   *)
(*                                                                          *)
(* Numbers.  The script computes in floating point; the model computes in   *)
(* exact rational arithmetic (a rational is a record [n, d], d > 0, in      *)
(* lowest terms), so rounding is not modelled.  The factor pi^2 of          *)
(* (4*pi*f/2)^2 is carried symbolically: omega_sq(f) is the coefficient of  *)
(* pi^2, J is held in units of 1/pi^2, and the product J * omega_sq is an   *)
(* ordinary rational again, exactly as in the source where pi^2 cancels.    *)
(*                                                                          *)
(* Arrays.  A NumPy array is a sequence of rationals, indexed from 1 (the   *)
(* source's index k is the model's k+1).  A value is either Scalar(r) or    *)
(* Array(s), because the envelope of an absent asset holds the scalar 0     *)
(* and the sums and comparisons of the source broadcast it.                 *)
(***************************************************************************)
EXTENDS Integers, Sequences, FiniteSets, TLC

VARIABLES pc, time, assets, system, flex, disturbance_curve, system_flex, disturbance_info

vars == <<pc, time, assets, system, flex, disturbance_curve, system_flex, disturbance_info>>

----------------------------------------------------------------------------
(* Exact rational arithmetic standing for the source's float arithmetic.   *)

Abs(x) == IF x < 0 THEN -x ELSE x

RECURSIVE GCD(_, _)
GCD(a, b) == IF b = 0 THEN a ELSE GCD(b, a % b)

Rat(n, d) ==
    LET s == IF d < 0 THEN -1 ELSE 1
        g == GCD(Abs(n), Abs(d))
    IN  [n |-> (s * n) \div g, d |-> (s * d) \div g]

R(k) == [n |-> k, d |-> 1]

Zero == R(0)

\* The operations cancel common factors before they multiply, which keeps
\* the intermediate products small; the results are the exact sum, difference,
\* product and quotient.
RAdd(a, b) ==
    LET g == GCD(a.d, b.d)
    IN  Rat(a.n * (b.d \div g) + b.n * (a.d \div g), (a.d \div g) * b.d)

RSub(a, b) ==
    LET g == GCD(a.d, b.d)
    IN  Rat(a.n * (b.d \div g) - b.n * (a.d \div g), (a.d \div g) * b.d)

RMul(a, b) ==
    LET g1 == GCD(Abs(a.n), b.d)
        g2 == GCD(Abs(b.n), a.d)
    IN  Rat((a.n \div g1) * (b.n \div g2), (a.d \div g2) * (b.d \div g1))

RDiv(a, b) == RMul(a, Rat(b.d, b.n))

RNeg(a)    == [n |-> -a.n, d |-> a.d]
RLt(a, b)  ==
    LET g == GCD(a.d, b.d)
    IN  a.n * (b.d \div g) < b.n * (a.d \div g)
RGt(a, b)  == RLt(b, a)
RLe(a, b)  == ~RLt(b, a)
RGe(a, b)  == ~RLt(a, b)

----------------------------------------------------------------------------
(* NumPy values: scalars, arrays, broadcasting.                            *)

Scalar(r) == [shape |-> "scalar", v |-> r]
Array(s)  == [shape |-> "array",  v |-> s]

\* x + y with NumPy broadcasting (scalar with array, array with array).
np_add(x, y) ==
    IF x.shape = "scalar" /\ y.shape = "scalar" THEN Scalar(RAdd(x.v, y.v))
    ELSE IF x.shape = "scalar" THEN Array([i \in DOMAIN y.v |-> RAdd(x.v, y.v[i])])
    ELSE IF y.shape = "scalar" THEN Array([i \in DOMAIN x.v |-> RAdd(x.v[i], y.v)])
    ELSE Array([i \in DOMAIN x.v |-> RAdd(x.v[i], y.v[i])])

\* The element of a value at index i, as broadcasting against an array sees it.
at(x, i) == IF x.shape = "scalar" THEN x.v ELSE x.v[i]

\* arr.cumsum(): the prefix sums of a sequence of rationals.
RECURSIVE prefix_sum(_, _)
prefix_sum(s, i) == IF i = 0 THEN Zero ELSE RAdd(prefix_sum(s, i - 1), s[i])

cumsum(s) == [i \in DOMAIN s |-> prefix_sum(s, i)]

\* np.linspace(start, stop, num)
linspace(start, stop, num) ==
    [i \in 1..num |-> RAdd(start, RMul(R(i - 1), RDiv(RSub(stop, start), R(num - 1))))]

----------------------------------------------------------------------------
(* get_asset_flexibility (src/main.py 13-39).                              *)

\* The absent asset: the script passes None for an unchecked asset type.
None == [absent |-> TRUE]

\* 'Charge' in asset
has_charge(asset) == "Charge" \in DOMAIN asset

\* ramp_up without the clamp at the headroom (line 23 dropped).
ramp_up_no_ceiling(asset, t) ==
    LET up0 == [i \in DOMAIN t |->
                   RSub(RMul(t[i], asset.RampUp), RMul(asset.Latency, asset.RampUp))]
    IN  [i \in DOMAIN t |-> IF RLt(up0[i], Zero) THEN Zero ELSE up0[i]]

\* ramp_up without the latency term of line 21.
ramp_up_no_latency(asset, t) ==
    LET headroom == RSub(asset.MaxOutput, asset.Output)
        up0 == [i \in DOMAIN t |-> RMul(t[i], asset.RampUp)]
        up1 == [i \in DOMAIN t |-> IF RLt(up0[i], Zero) THEN Zero ELSE up0[i]]
    IN  [i \in DOMAIN t |-> IF RGt(up1[i], headroom) THEN headroom ELSE up1[i]]

\* Lines 21-23: the ramping up capability, clamped below by 0 and above by
\* the headroom Max Output - Output.
ramp_up(asset, t) ==
    LET headroom == RSub(asset.MaxOutput, asset.Output)
        up0 == [i \in DOMAIN t |->
                   RSub(RMul(t[i], asset.RampUp), RMul(asset.Latency, asset.RampUp))]
        up1 == [i \in DOMAIN t |-> IF RLt(up0[i], Zero) THEN Zero ELSE up0[i]]
    IN  [i \in DOMAIN t |-> IF RGt(up1[i], headroom) THEN headroom ELSE up1[i]]

\* Lines 26-28: the ramping down capability, clamped above by 0 and below by
\* Min Output - Output.
ramp_down(asset, t) ==
    LET floor == RSub(asset.MinOutput, asset.Output)
        down0 == [i \in DOMAIN t |->
                     RSub(RMul(t[i], RNeg(asset.RampDown)),
                          RMul(asset.Latency, RNeg(asset.RampDown)))]
        down1 == [i \in DOMAIN t |-> IF RGt(down0[i], Zero) THEN Zero ELSE down0[i]]
    IN  [i \in DOMAIN t |-> IF RLt(down1[i], floor) THEN floor ELSE down1[i]]

\* Line 32.
energy_to_empty(asset) == RDiv(RMul(asset.Charge, asset.Energy), R(100))

\* Line 33.
energy_to_full(asset) == RSub(asset.Energy, energy_to_empty(asset))

\* Line 35: dt = time[1] - time[0].
grid_dt(t) == RSub(t[2], t[1])

\* limit_up testing the running sum against energy_to_full.
limit_up_against_full(asset, t, up) ==
    LET run == cumsum(up)
    IN  [i \in DOMAIN up |->
            IF RGt(RMul(run[i], grid_dt(t)), energy_to_full(asset)) THEN Zero ELSE up[i]]

\* limit_up testing each sample instead of the running sum.
limit_up_pointwise(asset, t, up) ==
    [i \in DOMAIN up |->
        IF RGt(RMul(up[i], grid_dt(t)), energy_to_empty(asset)) THEN Zero ELSE up[i]]

\* Line 36: up = np.where(up.cumsum() * dt > energy_to_empty, 0, up).
limit_up(asset, t, up) ==
    LET run == cumsum(up)
    IN  [i \in DOMAIN up |->
            IF RGt(RMul(run[i], grid_dt(t)), energy_to_empty(asset)) THEN Zero ELSE up[i]]

\* Line 37: down = np.where(-down.cumsum() * dt > energy_to_full, 0, down).
limit_down(asset, t, down) ==
    LET run == cumsum(down)
    IN  [i \in DOMAIN down |->
            IF RGt(RMul(RNeg(run[i]), grid_dt(t)), energy_to_full(asset)) THEN Zero ELSE down[i]]

\* get_asset_flexibility with a validation of the asset in front of it; the
\* script's variable stays unassigned when the validation fails.
get_asset_flexibility_validating(asset, t) ==
    IF asset = None
    THEN [Up |-> Scalar(Zero), Down |-> Scalar(Zero), Output |-> Zero]
    ELSE IF \/ RLe(asset.RampUp, Zero) \/ RLe(asset.RampDown, Zero)
            \/ RLt(asset.Latency, Zero)
            \/ RLt(asset.Output, asset.MinOutput) \/ RGt(asset.Output, asset.MaxOutput)
    THEN [unset |-> TRUE]
    ELSE LET up   == ramp_up(asset, t)
             down == ramp_down(asset, t)
         IN  IF has_charge(asset)
             THEN [Up     |-> Array(limit_up(asset, t, up)),
                   Down   |-> Array(limit_down(asset, t, down)),
                   Output |-> asset.Output]
             ELSE [Up |-> Array(up), Down |-> Array(down), Output |-> asset.Output]

get_asset_flexibility(asset, t) ==
    IF asset = None
    THEN [Up |-> Scalar(Zero), Down |-> Scalar(Zero), Output |-> Zero]
    ELSE LET up   == ramp_up(asset, t)
             down == ramp_down(asset, t)
         IN  IF has_charge(asset)
             THEN [Up     |-> Array(limit_up(asset, t, up)),
                   Down   |-> Array(limit_down(asset, t, down)),
                   Output |-> asset.Output]
             ELSE [Up |-> Array(up), Down |-> Array(down), Output |-> asset.Output]

----------------------------------------------------------------------------
(* get_power_disturbance_curve (src/main.py 43-66).                        *)

\* (4 * np.pi * f / 2) ** 2, as the coefficient of pi^2.
omega_sq(f) ==
    LET w == RDiv(RMul(R(4), f), R(2))
    IN  RMul(w, w)

\* get_power_disturbance_curve with K_M taken at the lower frequency limit.
curve_with_K_M_at_freq_min(t, sys) ==
    LET K     == sys.inertia
        J     == RDiv(RMul(R(2), K), omega_sq(sys.freq))
        K_m   == RMul(RMul(Rat(1, 2), J), omega_sq(sys.freq_min))
        K_M   == RMul(RMul(Rat(1, 2), J), omega_sq(sys.freq_min))
        K_a_m == RSub(K, K_m)
        K_a_M == RSub(K_M, K)
        P_d_m == [i \in DOMAIN t |-> RDiv(K_a_m, t[i])]
        P_d_M == [i \in DOMAIN t |-> RDiv(RNeg(K_a_M), t[i])]
    IN  [lower |-> Array(P_d_M), upper |-> Array(P_d_m)]

\* get_power_disturbance_curve with the margins multiplied by the time.
curve_times_time(t, sys) ==
    LET K     == sys.inertia
        J     == RDiv(RMul(R(2), K), omega_sq(sys.freq))
        K_m   == RMul(RMul(Rat(1, 2), J), omega_sq(sys.freq_min))
        K_M   == RMul(RMul(Rat(1, 2), J), omega_sq(sys.freq_max))
        K_a_m == RSub(K, K_m)
        K_a_M == RSub(K_M, K)
        P_d_m == [i \in DOMAIN t |-> RMul(K_a_m, t[i])]
        P_d_M == [i \in DOMAIN t |-> RMul(RNeg(K_a_M), t[i])]
    IN  [lower |-> Array(P_d_M), upper |-> Array(P_d_m)]

get_power_disturbance_curve(t, sys) ==
    LET K     == sys.inertia
        J     == RDiv(RMul(R(2), K), omega_sq(sys.freq))
        K_m   == RMul(RMul(Rat(1, 2), J), omega_sq(sys.freq_min))
        K_M   == RMul(RMul(Rat(1, 2), J), omega_sq(sys.freq_max))
        K_a_m == RSub(K, K_m)
        K_a_M == RSub(K_M, K)
        P_d_m == [i \in DOMAIN t |-> RDiv(K_a_m, t[i])]
        P_d_M == [i \in DOMAIN t |-> RDiv(RNeg(K_a_M), t[i])]
    IN  [lower |-> Array(P_d_M), upper |-> Array(P_d_m)]

----------------------------------------------------------------------------
(* flexibility_aggreagation (src/main.py 69-74).                           *)

\* flexibility_aggreagation with the last operand of both sums left out.
aggreagation_without_battery(gas_fired_flex, hydro_flex, solar_flex, wind_flex, battery_flex) ==
    [Up   |-> np_add(np_add(np_add(gas_fired_flex.Up, hydro_flex.Up),
                            solar_flex.Up), wind_flex.Up),
     Down |-> np_add(np_add(np_add(gas_fired_flex.Down, hydro_flex.Down),
                            solar_flex.Down), wind_flex.Down)]

flexibility_aggreagation(gas_fired_flex, hydro_flex, solar_flex, wind_flex, battery_flex) ==
    [Up   |-> np_add(np_add(np_add(np_add(gas_fired_flex.Up, hydro_flex.Up),
                                   solar_flex.Up), wind_flex.Up), battery_flex.Up),
     Down |-> np_add(np_add(np_add(np_add(gas_fired_flex.Down, hydro_flex.Down),
                                   solar_flex.Down), wind_flex.Down), battery_flex.Down)]

----------------------------------------------------------------------------
(* get_max_min_disturbance (src/main.py 77-87).                            *)

\* np.argwhere(curve > flexv): the indices of the curve, in increasing order,
\* at which the comparison holds (flexv broadcast when it is the scalar 0).
argwhere_gt(curve, flexv) == {i \in DOMAIN curve.v : RGt(curve.v[i], at(flexv, i))}
\* argwhere_lt with <= in place of <.
argwhere_le(curve, flexv) == {i \in DOMAIN curve.v : RLe(curve.v[i], at(flexv, i))}
argwhere_lt(curve, flexv) == {i \in DOMAIN curve.v : RLt(curve.v[i], at(flexv, i))}

\* argwhere(...)[0]: the smallest index; on an empty result Python raises
\* IndexError, which the model renders as the value IndexError.
IndexError == 0

\* first with the first index as the answer on an empty result.
first_or_default(S) == IF S = {} THEN 1 ELSE CHOOSE i \in S : \A j \in S : i <= j

first(S) == IF S = {} THEN IndexError ELSE CHOOSE i \in S : \A j \in S : i <= j

get_max_min_disturbance(sflex, curve, t) ==
    LET idx_down == first(argwhere_gt(curve.lower, sflex.Down))
        idx_up   == first(argwhere_lt(curve.upper, sflex.Up))
    IN  IF idx_down = IndexError \/ idx_up = IndexError
        THEN [raised |-> "IndexError"]
        ELSE [raised        |-> "no",
              max_dist      |-> curve.upper.v[idx_up],
              min_dist      |-> curve.lower.v[idx_down],
              max_dist_time |-> t[idx_up],
              min_dist_time |-> t[idx_down]]

----------------------------------------------------------------------------
(* The script (src/main.py 146-353): one run from the widgets' values to   *)
(* the results.  pc is the next statement of the script to execute.        *)

Slots == <<"gas_fired", "hydro", "solar", "wind", "battery">>

SlotNames == {Slots[k] : k \in DOMAIN Slots}

\* The statement after the one that computes slot number k.
after_slot(k) == IF k < Len(Slots) THEN Slots[k + 1] ELSE "curve"

\* A variable of the script that has not been assigned yet.
Unset == [unset |-> TRUE]

\* The asset dictionaries built at lines 187, 204, 220, 237 and 258.
plain_asset(output, max_output, min_output, latency, ramp_up_, ramp_down_) ==
    [Output |-> output, MaxOutput |-> max_output, MinOutput |-> min_output,
     Latency |-> latency, RampUp |-> ramp_up_, RampDown |-> ramp_down_]

storage_asset(energy, charge, output, max_output, min_output, latency, ramp_up_, ramp_down_) ==
    [Energy |-> energy, Charge |-> charge,
     Output |-> output, MaxOutput |-> max_output, MinOutput |-> min_output,
     Latency |-> latency, RampUp |-> ramp_up_, RampDown |-> ramp_down_]

\* Lines 188/194 (and 205/211, 221/227, 238/244, 259/265): the flexibility of
\* the asset type in slot number k, None when its checkbox is off.
AssetFlexibility(k) ==
    /\ pc = Slots[k]
    /\ flex' = [flex EXCEPT ![Slots[k]] = get_asset_flexibility(assets[Slots[k]], time)]
    /\ pc' = after_slot(k)
    /\ UNCHANGED <<time, assets, system, disturbance_curve, system_flex, disturbance_info>>

\* Line 268.
PowerDisturbanceCurve ==
    /\ pc = "curve"
    /\ disturbance_curve' = get_power_disturbance_curve(time, system)
    /\ pc' = "aggregate"
    /\ UNCHANGED <<time, assets, system, flex, system_flex, disturbance_info>>

\* Line 325.
FlexibilityAggregation ==
    /\ pc = "aggregate"
    /\ system_flex' = flexibility_aggreagation(flex["gas_fired"], flex["hydro"],
                                               flex["solar"], flex["wind"], flex["battery"])
    /\ pc' = "figure"
    /\ UNCHANGED <<time, assets, system, flex, disturbance_curve, disturbance_info>>

\* Line 328, figure_system_flex_power_disturbance (lines 121-138): the figure
\* of the aggregate reverses system_flex['Down'], which raises TypeError when
\* it is the scalar 0 of a fleet with every asset absent; the run ends there.
\* Nothing else of the figure is modelled.
SystemFlexFigure ==
    /\ pc = "figure"
    /\ pc' = IF system_flex.Down.shape = "scalar" THEN "TypeError" ELSE "solve"
    /\ UNCHANGED <<time, assets, system, flex, disturbance_curve, system_flex,
                   disturbance_info>>

\* Line 333.  An IndexError raised inside get_max_min_disturbance leaves
\* disturbance_info unassigned and ends the run.
MaxMinDisturbance ==
    /\ pc = "solve"
    /\ LET r == get_max_min_disturbance(system_flex, disturbance_curve, time)
       IN  IF r.raised = "IndexError"
           THEN /\ pc' = "IndexError"
                /\ UNCHANGED disturbance_info
           ELSE /\ pc' = "done"
                /\ disturbance_info' = r
    /\ UNCHANGED <<time, assets, system, flex, disturbance_curve, system_flex>>

\* The state before line 188, the widgets' values read.
Start(t, a, sys) ==
    /\ pc = Slots[1]
    /\ time = t
    /\ assets = a
    /\ system = sys
    /\ flex = [s \in SlotNames |-> Unset]
    /\ disturbance_curve = Unset
    /\ system_flex = Unset
    /\ disturbance_info = Unset

----------------------------------------------------------------------------
(* Inputs.                                                                 *)

\* The number of samples of the time grid (1000 at line 168, scaled down).
NumSamples == 3

\* 'Max plot time (s)' (line 167) ranges over 2..MaxTimeMax.
MaxTimeMax == 3

\* Ramp rates range over 0..MaxRamp MW/s (0 is outside the widgets' range).
MaxRamp == 2

\* 'Total Inertia (MWs)' ranges over 0, 25, .., 25 * MaxInertiaSteps (line 160).
MaxInertiaSteps == 3

\* Line 168: time = np.linspace(0.1, time_max, 1000).
script_grid(time_max) == linspace(Rat(1, 10), R(time_max), NumSamples)

\* The grids of the script, and the two grids of the documented scenarios
\* ([0.5, 2, 3] and [0.1, 1, 5]); every grid is strictly increasing, positive
\* and of length >= 2.
TimeGrids ==
    {script_grid(m) : m \in 2..MaxTimeMax}
        \cup {<<Rat(1, 2), R(2), R(3)>>, <<Rat(1, 10), R(1), R(5)>>}

\* Asset parameters for the runs that exercise get_asset_flexibility: inside
\* and outside the ranges the widgets enforce.
OutputVals    == {Rat(-1, 2), R(0), R(1), R(7), R(11)}
MaxOutputVals == {Rat(1, 2), R(1), R(10)}
MinOutputVals == {Rat(-1, 2), R(0)}
LatencyVals   == {R(-1), R(0), Rat(1, 10), R(1)}
RampUpVals    == {R(k) : k \in 0..MaxRamp}
RampDownVals  == {R(0), R(1), Rat(3, 2)}
ChargeVals    == {R(0), R(50), R(100)}
EnergyVals    == {R(0), R(4), R(1000)}

PlainAssets ==
    {plain_asset(o, M, m, l, u, d) :
        o \in OutputVals, M \in MaxOutputVals, m \in MinOutputVals,
        l \in LatencyVals, u \in RampUpVals, d \in RampDownVals}

StorageAssets ==
    {storage_asset(e, c, o, M, m, l, u, d) :
        e \in EnergyVals, c \in ChargeVals,
        o \in OutputVals, M \in MaxOutputVals, m \in MinOutputVals,
        l \in LatencyVals, u \in RampUpVals, d \in RampDownVals}

\* Systems: the widgets' ranges of lines 160-164 (freq may sit on a limit).
FreqMinVals == {R(57), R(59), Rat(599, 10)}
FreqMaxVals == {Rat(601, 10), R(61), R(63)}
InertiaVals == {R(25 * k) : k \in 0..MaxInertiaSteps}

Systems ==
    {sys \in [inertia : InertiaVals, freq : FreqMinVals \cup {R(60)} \cup FreqMaxVals,
              freq_min : FreqMinVals, freq_max : FreqMaxVals] :
        sys.freq \in {sys.freq_min, R(60), sys.freq_max}}

\* The widgets' default values (lines 182-186, 199-203, 215-219, 232-236,
\* 250-257), and one variant of each.
GasDefault     == plain_asset(R(7), R(10), R(0), R(1), R(1), Rat(3, 2))
HydroDefault   == plain_asset(R(5), R(10), R(0), R(1), R(1), Rat(5, 2))
SolarDefault   == plain_asset(R(1), R(1), R(0), Rat(1, 20), R(25), R(25))
WindDefault    == plain_asset(R(1), R(2), R(0), Rat(1, 10), R(10), R(10))
BatteryDefault == storage_asset(R(1000), R(75), Rat(-1, 2), Rat(1, 2), Rat(-1, 2),
                                Rat(1, 10), R(50), R(50))

FleetChoices ==
    [gas_fired |-> {None, GasDefault, plain_asset(R(7), R(10), R(0), R(0), R(1), R(1))},
     hydro     |-> {None, HydroDefault},
     solar     |-> {None, SolarDefault},
     wind      |-> {None, WindDefault},
     battery   |-> {None, BatteryDefault,
                    storage_asset(R(1), R(0), R(0), Rat(1, 2), Rat(-1, 2),
                                  Rat(1, 10), R(50), R(50))}]

Fleets == {a \in [SlotNames -> UNION {FleetChoices[s] : s \in SlotNames}] :
              \A s \in SlotNames : a[s] \in FleetChoices[s]}

\* 59/60/61 Hz systems: no inertia, the default 50 MWs, the inertias at which
\* the default gas unit's envelope touches the curve at t = 2 without crossing
\* it (upward: 7200/119, downward: 10800/121), and a very large inertia.
FleetSystems ==
    {[inertia |-> K, freq |-> R(60), freq_min |-> R(59), freq_max |-> R(61)] :
        K \in {R(0), R(50), Rat(7200, 119), Rat(10800, 121), R(1000000)}}

DefaultSystem == [inertia |-> R(50), freq |-> R(60), freq_min |-> R(59), freq_max |-> R(61)]

only(s, a) == [x \in SlotNames |-> IF x = s THEN a ELSE None]

----------------------------------------------------------------------------
(* Specifications.                                                         *)

\* The whole script on fleets of default assets.
Init == \E t \in TimeGrids, a \in Fleets, sys \in FleetSystems : Start(t, a, sys)

Next ==
    \/ \E k \in DOMAIN Slots : AssetFlexibility(k)
    \/ PowerDisturbanceCurve
    \/ FlexibilityAggregation
    \/ SystemFlexFigure
    \/ MaxMinDisturbance

Spec == Init /\ [][Next]_vars

\* get_max_min_disturbance called on the aggregate and the curve of a fleet
\* and a system, without the figures in between: the state before line 333
\* with the earlier results in place.
InitSolve ==
    \E t \in TimeGrids, a \in Fleets, sys \in FleetSystems :
        LET f == [s \in SlotNames |-> get_asset_flexibility(a[s], t)]
        IN  /\ pc = "solve"
            /\ time = t
            /\ assets = a
            /\ system = sys
            /\ flex = f
            /\ disturbance_curve = get_power_disturbance_curve(t, sys)
            /\ system_flex = flexibility_aggreagation(f["gas_fired"], f["hydro"], f["solar"],
                                                      f["wind"], f["battery"])
            /\ disturbance_info = Unset

NextSolve == MaxMinDisturbance

SpecSolve == InitSolve /\ [][NextSolve]_vars

\* The asset section of the script (lines 180-265) on one asset drawn from
\* the wide parameter sets: a plain asset in the gas-fired slot or a storage
\* asset in the battery slot.
InitFlex ==
    \E t \in TimeGrids :
        \/ \E a \in PlainAssets   : Start(t, only("gas_fired", a), DefaultSystem)
        \/ \E a \in StorageAssets : Start(t, only("battery", a), DefaultSystem)

NextFlex == \E k \in DOMAIN Slots : AssetFlexibility(k)

SpecFlex == InitFlex /\ [][NextFlex]_vars

\* The script up to the disturbance curve (line 268) on the wide set of
\* systems, every asset type unchecked.
InitCurve ==
    \E t \in TimeGrids, sys \in Systems : Start(t, [s \in SlotNames |-> None], sys)

NextCurve ==
    \/ \E k \in DOMAIN Slots : AssetFlexibility(k)
    \/ PowerDisturbanceCurve

SpecCurve == InitCurve /\ [][NextCurve]_vars

----------------------------------------------------------------------------
(* Properties of get_asset_flexibility, checked under SpecFlex.            *)

\* The asset of slot s is present and its envelope has been computed.
Computed(s) == assets[s] # None /\ flex[s] # Unset

\* minOutput <= output <= maxOutput
InRange(a) == RLe(a.MinOutput, a.Output) /\ RLe(a.Output, a.MaxOutput)

\* An asset the failure-mode sentence calls invalid.
Invalid(a) ==
    \/ RLe(a.RampUp, Zero)
    \/ RLe(a.RampDown, Zero)
    \/ RLt(a.Latency, Zero)
    \/ ~InRange(a)

\* The running sum times dt of the uncorrected Up (of -Down) at index i.
EnergyUp(a, i)   == RMul(cumsum(ramp_up(a, time))[i], grid_dt(time))
EnergyDown(a, i) == RMul(RNeg(cumsum(ramp_down(a, time))[i]), grid_dt(time))

C2_RampAfterLatency ==
    \A s \in SlotNames :
        (/\ Computed(s)
         /\ ~has_charge(assets[s])
         /\ RGe(assets[s].RampUp, Zero)
         /\ RLe(assets[s].Output, assets[s].MaxOutput)) =>
            \A i \in DOMAIN time :
                LET L        == assets[s].Latency
                    linear   == RMul(assets[s].RampUp, RSub(time[i], L))
                    headroom == RSub(assets[s].MaxOutput, assets[s].Output)
                IN  /\ RLe(time[i], L) => flex[s].Up.v[i] = Zero
                    /\ RGt(time[i], L) =>
                          flex[s].Up.v[i] = IF RLt(linear, headroom) THEN linear ELSE headroom
                    /\ \A j \in DOMAIN time :
                          i < j => RLe(flex[s].Up.v[i], flex[s].Up.v[j])

\* The documented scenario: output 7, maxOutput 10, latency 1, rampUp 1 on
\* the grid [0.5, 2, 3] gives Up = [0, 1, 2].
C2_Witness ==
    /\ time = <<Rat(1, 2), R(2), R(3)>>
    /\ assets["gas_fired"] = GasDefault
    /\ flex["gas_fired"] # Unset
    /\ flex["gas_fired"].Up = Array(<<R(0), R(1), R(2)>>)

\* C3 as stated: for a storage asset with chargePercent = 0, Down is 0 at
\* every index from the first one on at which the cumulative discharge (the
\* running sum of -Down times dt) exceeds energyToEmpty = 0.  Stated for the
\* assets of the data model only.
C3_DownForcedToZero ==
    \A s \in SlotNames :
        (/\ Computed(s)
         /\ has_charge(assets[s])
         /\ ~Invalid(assets[s])
         /\ assets[s].Charge = Zero) =>
            \A i, k \in DOMAIN time :
                (RGt(EnergyDown(assets[s], i), Zero) /\ i <= k) => flex[s].Down.v[k] = Zero

\* C3 as amended: for a storage asset with chargePercent = 0 it is Up that is
\* 0 at every index from the first one on at which the running sum of the
\* uncorrected Up times dt exceeds energyToEmpty = 0; Down is zeroed exactly
\* at the indices where the running sum of the uncorrected -Down times dt
\* exceeds energyToFull, which is the whole energy capacity.
C3_UpForcedToZero ==
    \A s \in SlotNames :
        (Computed(s) /\ has_charge(assets[s]) /\ assets[s].Charge = Zero) =>
            \A i \in DOMAIN time :
                /\ RGt(EnergyUp(assets[s], i), Zero) =>
                      \A k \in DOMAIN time : i <= k => flex[s].Up.v[k] = Zero
                /\ IF RGt(EnergyDown(assets[s], i), assets[s].Energy)
                   THEN flex[s].Down.v[i] = Zero
                   ELSE flex[s].Down.v[i] = ramp_down(assets[s], time)[i]

\* An empty storage asset of the data model that could ramp up (the
\* uncorrected Up is positive at an index) and has Up zeroed there, while
\* its Down is not zeroed at that index.
C3_Witness ==
    /\ Computed("battery")
    /\ has_charge(assets["battery"])
    /\ ~Invalid(assets["battery"])
    /\ assets["battery"].Charge = Zero
    /\ \E i \in DOMAIN time :
          /\ RGt(ramp_up(assets["battery"], time)[i], Zero)
          /\ flex["battery"].Up.v[i] = Zero
          /\ RLt(flex["battery"].Down.v[i], Zero)

\* The statement that computes slot number k has been executed.
Executed(k) == pc \notin {Slots[j] : j \in 1..k}

\* C7 as stated: an asset with rampUp <= 0, rampDown <= 0, latency < 0 or an
\* output outside [minOutput, maxOutput] is rejected: the call fails and no
\* envelope is returned for it.
C7_InvalidAssetRejected ==
    \A k \in DOMAIN Slots :
        (assets[Slots[k]] # None /\ Invalid(assets[Slots[k]])) => flex[Slots[k]] = Unset

\* C7 as amended: get_asset_flexibility validates nothing.  For an asset with
\* rampUp <= 0, rampDown <= 0, latency < 0 or an output outside
\* [minOutput, maxOutput] the call returns an envelope over the whole grid
\* with the asset's output as Output, computed by the same clamps: with
\* output > maxOutput, Up is the negative headroom maxOutput - output at
\* every index; with output < minOutput, Down is the positive
\* minOutput - output at every index; with rampUp = 0, Up is 0 wherever the
\* headroom is not negative.
C7_InvalidAssetClamped ==
    \A k \in DOMAIN Slots :
        LET a == assets[Slots[k]]
            e == flex[Slots[k]]
        IN  (Executed(k) /\ a # None /\ Invalid(a)) =>
                /\ e # Unset
                /\ e.Output = a.Output
                /\ Len(e.Up.v) = Len(time)
                /\ Len(e.Down.v) = Len(time)
                /\ RGt(a.Output, a.MaxOutput) =>
                      \A i \in DOMAIN time : e.Up.v[i] = RSub(a.MaxOutput, a.Output)
                /\ RLt(a.Output, a.MinOutput) =>
                      \A i \in DOMAIN time : e.Down.v[i] = RSub(a.MinOutput, a.Output)
                /\ (a.RampUp = Zero /\ RLe(a.Output, a.MaxOutput)) =>
                      \A i \in DOMAIN time : e.Up.v[i] = Zero

\* An asset above its ceiling whose envelope has been returned, with a
\* negative Up.
C7_Witness ==
    /\ Executed(1)
    /\ assets["gas_fired"] # None
    /\ RGt(assets["gas_fired"].Output, assets["gas_fired"].MaxOutput)
    /\ flex["gas_fired"] # Unset
    /\ RLt(flex["gas_fired"].Up.v[1], Zero)

\* C10. For a storage asset with minOutput <= output <= maxOutput the zeroing
\* of the energy limit is sticky: if the running sum of the uncorrected Up
\* times dt exceeds energyToEmpty at index i, it does so at every k >= i and
\* Up[k] = 0 there, and Up is the uncorrected Up at every index where it does
\* not; the same for Down against energyToFull.  The zeroed indices are a
\* suffix of the grid.
C10_StickyZeroing ==
    \A s \in SlotNames :
        (Computed(s) /\ has_charge(assets[s]) /\ InRange(assets[s])) =>
            LET a        == assets[s]
                up0      == ramp_up(a, time)
                down0    == ramp_down(a, time)
                OverUp   == {i \in DOMAIN time : RGt(EnergyUp(a, i), energy_to_empty(a))}
                OverDown == {i \in DOMAIN time : RGt(EnergyDown(a, i), energy_to_full(a))}
            IN  \A i \in DOMAIN time :
                    /\ i \in OverUp =>
                          \A k \in DOMAIN time :
                              i <= k => (k \in OverUp /\ flex[s].Up.v[k] = Zero)
                    /\ i \notin OverUp => flex[s].Up.v[i] = up0[i]
                    /\ i \in OverDown =>
                          \A k \in DOMAIN time :
                              i <= k => (k \in OverDown /\ flex[s].Down.v[k] = Zero)
                    /\ i \notin OverDown => flex[s].Down.v[i] = down0[i]

\* A storage asset in range whose Up is kept, and positive, at the first
\* index and zeroed from the second index on although every single sample
\* times dt stays within energyToEmpty.
C10_Witness ==
    /\ Computed("battery")
    /\ has_charge(assets["battery"])
    /\ InRange(assets["battery"])
    /\ LET a == assets["battery"]
       IN  /\ RGt(flex["battery"].Up.v[1], Zero)
           /\ \A k \in DOMAIN time :
                 /\ k >= 2 => flex["battery"].Up.v[k] = Zero
                 /\ RLe(RMul(ramp_up(a, time)[k], grid_dt(time)), energy_to_empty(a))

----------------------------------------------------------------------------
(* Properties of get_power_disturbance_curve, checked under SpecCurve.     *)

RAbs(a) == IF a.n < 0 THEN RNeg(a) ELSE a

\* freq is exactly midway between freq min and freq max.
Midway(sys) == RSub(sys.freq, sys.freq_min) = RSub(sys.freq_max, sys.freq)

\* freqMin < freq < freqMax and inertia >= 0.
Accepted(sys) ==
    /\ RLt(sys.freq_min, sys.freq)
    /\ RLt(sys.freq, sys.freq_max)
    /\ RGe(sys.inertia, Zero)

\* C5 as stated: with freq exactly midway between freqMin and freqMax,
\* upper[i] = -lower[i] at every index i of the time grid.
C5_Symmetric ==
    (disturbance_curve # Unset /\ Midway(system)) =>
        \A i \in DOMAIN time :
            disturbance_curve.upper.v[i] = RNeg(disturbance_curve.lower.v[i])

\* C5 as amended: with freq exactly midway between freqMin and freqMax,
\* upper[i] <= -lower[i] at every index i, the two being equal exactly when
\* the inertia is 0: -lower[i] - upper[i] is
\* 2 * inertia * ((freq - freqMin) / freq)^2 / time[i], because the kinetic
\* energy is quadratic in the frequency.
C5_UpperBelowMirroredLower ==
    (disturbance_curve # Unset /\ Midway(system)) =>
        \A i \in DOMAIN time :
            LET up_i  == disturbance_curve.upper.v[i]
                low_i == disturbance_curve.lower.v[i]
                ratio == RDiv(RSub(system.freq, system.freq_min), system.freq)
            IN  /\ RLe(up_i, RNeg(low_i))
                /\ (up_i = RNeg(low_i)) <=> (system.inertia = Zero)
                /\ RSub(RNeg(low_i), up_i) =
                      RDiv(RMul(RMul(R(2), system.inertia), RMul(ratio, ratio)), time[i])

\* The 59/60/61 Hz system with 50 MWs of inertia: upper is strictly below
\* -lower at the first sample.
C5_Witness ==
    /\ disturbance_curve # Unset
    /\ system = DefaultSystem
    /\ RLt(disturbance_curve.upper.v[1], RNeg(disturbance_curve.lower.v[1]))

\* C8 as stated: for every system with freqMin < freq < freqMax and
\* inertia >= 0 and every pair of grid times t1 < t2, upper(t2) < upper(t1)
\* and |lower(t2)| < |lower(t1)|.
C8_StrictlyDecreasing ==
    (disturbance_curve # Unset /\ Accepted(system)) =>
        \A i, j \in DOMAIN time :
            RLt(time[i], time[j]) =>
                /\ RLt(disturbance_curve.upper.v[j], disturbance_curve.upper.v[i])
                /\ RLt(RAbs(disturbance_curve.lower.v[j]), RAbs(disturbance_curve.lower.v[i]))

\* C8 as amended: for every system with freqMin < freq < freqMax and
\* inertia > 0 and every pair of grid times t1 < t2, upper(t2) < upper(t1)
\* and |lower(t2)| < |lower(t1)|; with inertia = 0 both curves are 0 at
\* every grid time.
C8_StrictlyDecreasingWithInertia ==
    (disturbance_curve # Unset /\ Accepted(system)) =>
        \A i, j \in DOMAIN time :
            IF system.inertia = Zero
            THEN /\ disturbance_curve.upper.v[i] = Zero
                 /\ disturbance_curve.lower.v[i] = Zero
            ELSE RLt(time[i], time[j]) =>
                    /\ RLt(disturbance_curve.upper.v[j], disturbance_curve.upper.v[i])
                    /\ RLt(RAbs(disturbance_curve.lower.v[j]),
                           RAbs(disturbance_curve.lower.v[i]))

\* The documented scenario: inertia 50, 59/60/61 Hz, time = [0.1, 1, 5];
\* upper is [595/36, 119/72, 119/360].
C8_Witness ==
    /\ system = DefaultSystem
    /\ time = <<Rat(1, 10), R(1), R(5)>>
    /\ disturbance_curve # Unset
    /\ disturbance_curve.upper = Array(<<Rat(595, 36), Rat(119, 72), Rat(119, 360)>>)

----------------------------------------------------------------------------
(* Properties of the aggregation and of the solver, checked under Spec and *)
(* SpecSolve.                                                              *)

\* The indices at which the curve is strictly crossed, upward and downward.
CrossUp ==
    {j \in DOMAIN time : RLt(disturbance_curve.upper.v[j], at(system_flex.Up, j))}
CrossDown ==
    {i \in DOMAIN time : RGt(disturbance_curve.lower.v[i], at(system_flex.Down, i))}

\* get_max_min_disturbance has been called.
Solved == pc \in {"done", "IndexError"}

\* C4. Whenever a crossing exists in both directions the solver reports
\* max dist = upper[j] and max dist @time = time[j] for the smallest j with
\* upper[j] < Up[j] strictly (upper[k] >= Up[k] for every k < j; an index
\* where upper equals Up is not chosen), and min dist = lower[i] and
\* min dist @time = time[i] for the smallest i with lower[i] > Down[i].
C4_FirstStrictCrossing ==
    (Solved /\ CrossUp # {} /\ CrossDown # {}) =>
        /\ pc = "done"
        /\ disturbance_info # Unset
        /\ \E j \in CrossUp :
              /\ \A k \in 1..(j - 1) :
                    RGe(disturbance_curve.upper.v[k], at(system_flex.Up, k))
              /\ disturbance_info.max_dist = disturbance_curve.upper.v[j]
              /\ disturbance_info.max_dist_time = time[j]
        /\ \E i \in CrossDown :
              /\ \A k \in 1..(i - 1) :
                    RLe(disturbance_curve.lower.v[k], at(system_flex.Down, k))
              /\ disturbance_info.min_dist = disturbance_curve.lower.v[i]
              /\ disturbance_info.min_dist_time = time[i]

\* A solved run in which upper equals a positive Up at an index before the
\* reported one, which is the first index after it.
C4_Witness ==
    /\ pc = "done"
    /\ \E k \in DOMAIN time :
          /\ k + 1 \in DOMAIN time
          /\ RGt(at(system_flex.Up, k), Zero)
          /\ disturbance_curve.upper.v[k] = at(system_flex.Up, k)
          /\ disturbance_info.max_dist_time = time[k + 1]
          /\ disturbance_info.max_dist = disturbance_curve.upper.v[k + 1]

\* C6. If no index of the grid satisfies the crossing condition in one of
\* the directions, get_max_min_disturbance raises (an IndexError, the
\* NoCrossingFound of the design) and no result is assigned.
C6_NoCrossingRaises ==
    (Solved /\ (CrossUp = {} \/ CrossDown = {})) =>
        /\ pc = "IndexError"
        /\ disturbance_info = Unset

\* A run with an asset present against a very large inertia that ended in
\* the error.
C6_Witness ==
    /\ pc = "IndexError"
    /\ system.inertia = R(1000000)
    /\ \E s \in SlotNames : assets[s] # None
    /\ CrossUp = {}

\* The four slots other than slot number k, in the order of the arguments.
others(k) == SelectSeq(Slots, LAMBDA s : s # Slots[k])

\* C9. An absent asset yields the zero envelope (Up = 0, Down = 0,
\* Output = 0), and with the asset of any one of the five argument positions
\* absent the aggregate's Up and Down are, at every index, the sums of the
\* Up and Down of the remaining four envelopes alone.
C9_AbsentAssetIsNeutral ==
    /\ \A s \in SlotNames :
          (assets[s] = None /\ flex[s] # Unset) =>
              flex[s] = [Up |-> Scalar(Zero), Down |-> Scalar(Zero), Output |-> Zero]
    /\ system_flex # Unset =>
          \A k \in DOMAIN Slots :
              assets[Slots[k]] = None =>
                  LET o == others(k)
                  IN  \A i \in DOMAIN time :
                          /\ at(system_flex.Up, i) =
                                RAdd(RAdd(RAdd(at(flex[o[1]].Up, i), at(flex[o[2]].Up, i)),
                                          at(flex[o[3]].Up, i)), at(flex[o[4]].Up, i))
                          /\ at(system_flex.Down, i) =
                                RAdd(RAdd(RAdd(at(flex[o[1]].Down, i), at(flex[o[2]].Down, i)),
                                          at(flex[o[3]].Down, i)), at(flex[o[4]].Down, i))

\* The aggregate of a fleet in which exactly the solar asset is absent.
C9_Witness ==
    /\ system_flex # Unset
    /\ \A s \in SlotNames : (assets[s] = None) <=> (s = "solar")
    /\ system_flex.Up.shape = "array"
    /\ \E i \in DOMAIN time : RGt(at(system_flex.Up, i), Zero)

====
